---- MODULE Spec2Model ----
(***************************************************************************)
(* Model of the PiVoiceReminder core: the event store (src/src/log.go),    *)
(* the reminder decision logic and batch (src/src/reminder.go) and the two *)
(* loops of main (sync loop and reminder loop).                            *)
(*                                                                         *)
(* Time is an integer number of seconds.  time.Time{} (the zero time) is   *)
(* ZeroTime, which lies before every clock reading.  Calendar times have   *)
(* whole seconds (format 20060102T150405), and the clock is read on a grid *)
(* of ClockStep seconds, so Duration arithmetic is exact in this unit.     *)
(***************************************************************************)
EXTENDS Integers, Sequences, FiniteSets, TLC

\* ------------------------------------------------------------------ bounds
\* number of clock steps the model follows
MaxTicks == 7

\* ------------------------------------------------------- program constants
Minute == 60
Day == 86400
DefaultNotificationRepeats == 3
\* time.Sleep(30 * time.Second) of the reminder loop
RemindSleep == 30
\* time.Sleep(15 * time.Second) of the sync loop
SyncSleep == 15

\* ------------------------------------------------------------- model scale
ZeroTime == 0
\* the clock grid: one reading every half minute
ClockStep == Minute \div 2
\* the day the model runs in and the first clock reading (10:00:00 UTC)
Today == 100 * Day
T0 == Today + 10 * 60 * Minute
MaxClock == T0 + MaxTicks * ClockStep

Ids == {"A", "B"}
NoFile == [kind |-> "nofile"]

\* notification_repeats values the configuration file may hold
ConfiguredRepeats == {0, 3}

\* The events of the remote calendar, and what the user edits each into.
\*   A: a regular event; its start and end are moved and it is renamed
\*   B: a zero-duration event; edited into an event with no end time (its
\*      DTEND does not parse and eventTimeToTime returns the zero time)
EventA == [ID |-> "A", StartTime |-> T0 - 30, EndTime |-> T0 + 180,
           TimeZone |-> "", Description |-> "d1"]
EventAMoved == [ID |-> "A", StartTime |-> T0 + 30, EndTime |-> T0 + 120,
                TimeZone |-> "Europe/Berlin", Description |-> "d2"]
EventB == [ID |-> "B", StartTime |-> T0 + 60, EndTime |-> T0 + 60,
           TimeZone |-> "", Description |-> "d1"]
EventBNoEnd == [ID |-> "B", StartTime |-> T0 + 30, EndTime |-> ZeroTime,
                TimeZone |-> "", Description |-> "d1"]
CalendarVersions == {EventA, EventAMoved, EventB, EventBNoEnd}
EditOf(v) == IF v = EventA THEN EventAMoved ELSE EventBNoEnd

\* ------------------------------------------------------------ time package
\* Go's integer division truncates toward zero
GoDiv(a, b) ==
  IF a >= 0 THEN a \div b ELSE -((-a) \div b)

\* t.Truncate(24 * time.Hour): multiples of a day since the zero time
Truncate(t) == t - (t % Day)

\* ------------------------------------------------------- LocalEvent (log.go)
NewLocalEvent(event) ==
  [Event |-> event, StartAnnounced |-> FALSE, CheckStartAnnounced |-> FALSE,
   EndAnnounced |-> FALSE, LastTimeReminded |-> ZeroTime]

scheduledForToday(e, now) ==
  Truncate(e.Event.StartTime) = Truncate(now)

\* faulty variant: the start of the window is inclusive
scheduledForNowFromStart(e, now) ==
  IF e.Event.StartTime = ZeroTime THEN FALSE
  ELSE now >= e.Event.StartTime /\ now < e.Event.EndTime

scheduledForNow(e, now) ==
  IF e.Event.StartTime = ZeroTime THEN FALSE
  ELSE now > e.Event.StartTime /\ now < e.Event.EndTime

scheduledNearEnd(e, now) ==
  IF e.Event.EndTime = ZeroTime THEN FALSE
  ELSE now > e.Event.EndTime - Minute /\ now < e.Event.EndTime + Minute

\* -------------------------------------------------- decisions (reminder.go)
shouldAnnounceEventStart(e, now) ==
  ~e.StartAnnounced /\ scheduledForToday(e, now) /\ scheduledForNow(e, now)

\* faulty variant: the check is due at exactly one minute after the start
shouldCheckEventStartedAtMinute(e, now) ==
  IF ~scheduledForToday(e, now) \/ ~e.StartAnnounced \/ e.CheckStartAnnounced THEN FALSE
  ELSE now >= e.Event.StartTime + Minute

shouldCheckEventStarted(e, now) ==
  IF ~scheduledForToday(e, now) \/ ~e.StartAnnounced \/ e.CheckStartAnnounced THEN FALSE
  ELSE now > e.Event.StartTime + Minute

shouldAnnounceEventEnd(e, now) ==
  ~e.EndAnnounced /\ scheduledForToday(e, now) /\ scheduledNearEnd(e, now)

\* faulty variant: the end time of the event is not looked at
remindGuardFromStart(e, now) ==
  ~(e.EndAnnounced \/ now < e.Event.StartTime)

\* the early return of shouldRemindEvent
remindGuard(e, now) ==
  ~(e.EndAnnounced \/ e.Event.EndTime = ZeroTime
      \/ now < e.Event.StartTime \/ now > e.Event.EndTime)

reminderInterval(e, repeats) ==
  GoDiv(e.Event.EndTime - e.Event.StartTime, repeats)

\* shouldRemindEvent panics (integer divide by zero) when the guard passes
\* and the repeat count is zero
remindPanics(e, now, repeats) ==
  remindGuard(e, now) /\ repeats = 0

\* faulty variant: a reminder is due at exactly one interval after the last one
shouldRemindEventAtInterval(e, now, repeats) ==
  /\ remindGuard(e, now)
  /\ repeats # 0
  /\ now >= e.LastTimeReminded + reminderInterval(e, repeats)

\* faulty variant: the interval is counted from the start of the event
shouldRemindEventFromStart(e, now, repeats) ==
  /\ remindGuard(e, now)
  /\ repeats # 0
  /\ now > e.Event.StartTime + reminderInterval(e, repeats)

shouldRemindEvent(e, now, repeats) ==
  /\ remindGuard(e, now)
  /\ repeats # 0
  /\ now > e.LastTimeReminded + reminderInterval(e, repeats)

\* The if-chain of the loop body of remindCurrentEvents, entered at check
\* number `stage` (1 start, 2 check-started, 3 remind, 4 end).
Decide(e, now, repeats, stage) ==
  IF stage <= 1 /\ shouldAnnounceEventStart(e, now) THEN "AnnounceStart"
  ELSE IF stage <= 2 /\ shouldCheckEventStarted(e, now) THEN "CheckStarted"
  ELSE IF stage <= 3 /\ remindPanics(e, now, repeats) THEN "panic"
  ELSE IF stage <= 3 /\ shouldRemindEvent(e, now, repeats) THEN "Remind"
  ELSE IF stage <= 4 /\ shouldAnnounceEventEnd(e, now) THEN "AnnounceEnd"
  ELSE "None"

Kinds == {"AnnounceStart", "CheckStarted", "Remind", "AnnounceEnd"}
OneShots == {"AnnounceStart", "CheckStarted", "AnnounceEnd"}
LastStage == 4
NextEvent == LastStage + 1

StageOf(k) ==
  IF k = "AnnounceStart" THEN 1 ELSE IF k = "CheckStarted" THEN 2
  ELSE IF k = "Remind" THEN 3 ELSE 4

\* faulty variant: the branches do not end in `continue`
AfterSpeakFallsThrough(k) == StageOf(k) + 1

\* Where the loop body goes on after a notification of kind k was spoken:
\* the first three branches end in `continue`, the fourth is the last
\* statement of the body.
AfterSpeak(k) == NextEvent

\* ------------------------------------------------------- the store (log.go)
\* json.MarshalIndent / json.Unmarshal of a LocalEvent keep the instants of
\* the three times, the flags and the strings, so a file is modelled by the
\* record it decodes to.
loadEvent(st, id) == st[id]

\* a file that json.Unmarshal rejects (empty or cut short)
Corrupt == [kind |-> "corrupt"]
\* loadEvent returns no error
Readable(rec) == rec # NoFile /\ rec # Corrupt

\* faulty variant: the existing record is not read, every save starts afresh
saveWithoutCarry(st, event) ==
  [st EXCEPT ![event.ID] = NewLocalEvent(event)]

\* faulty variant: LastTimeReminded is not carried over
saveDropsLastReminded(st, event) ==
  LET existingEvent == st[event.ID]
      fresh == NewLocalEvent(event)
      rec == IF existingEvent # NoFile
             THEN [fresh EXCEPT !.StartAnnounced = existingEvent.StartAnnounced,
                                !.CheckStartAnnounced = existingEvent.CheckStartAnnounced,
                                !.EndAnnounced = existingEvent.EndAnnounced]
             ELSE fresh
  IN [st EXCEPT ![event.ID] = rec]

\* faulty variant: a changed event is saved as a brand-new one
saveChangedAsNew(st, event) ==
  LET existingEvent == st[event.ID]
  IN [st EXCEPT ![event.ID] =
        IF existingEvent # NoFile /\ existingEvent.Event = event
        THEN existingEvent ELSE NewLocalEvent(event)]

\* saveEventLocally: carry the four lifecycle fields of an existing record
saveEventLocally(st, event) ==
  LET existingEvent == loadEvent(st, event.ID)
      fresh == NewLocalEvent(event)
      rec == IF Readable(existingEvent)
             THEN [fresh EXCEPT !.StartAnnounced = existingEvent.StartAnnounced,
                                !.CheckStartAnnounced = existingEvent.CheckStartAnnounced,
                                !.EndAnnounced = existingEvent.EndAnnounced,
                                !.LastTimeReminded = existingEvent.LastTimeReminded]
             ELSE fresh
  IN [st EXCEPT ![event.ID] = rec]

\* updateEvent: write the caller's copy of the record over the file
updateEvent(st, e) == [st EXCEPT ![e.Event.ID] = e]

\* os.ReadDir returns the entries sorted by file name
DirOrder == <<"A", "B">>

\* the filter of loadTodayEvents (the time zone conversion keeps instants)
keptByLoad(e, now) ==
  ~(~scheduledForToday(e, now) \/ now > e.Event.EndTime)

RECURSIVE loadFrom(_, _, _)
loadFrom(st, now, i) ==
  IF i > Len(DirOrder) THEN <<>>
  ELSE LET rec == loadEvent(st, DirOrder[i])
       IN (IF Readable(rec) /\ keptByLoad(rec, now) THEN <<rec>> ELSE <<>>)
            \o loadFrom(st, now, i + 1)

\* loadEvent fails for a file of the directory
loadFails(st) == \E id \in Ids : st[id] = Corrupt

\* on an error loadTodayEvents returns nil and remindCurrentEvents, which
\* only logs the error, ranges over no event
loadTodayEvents(st, now) ==
  IF loadFails(st) THEN <<>> ELSE loadFrom(st, now, 1)

SeqIds(evs) == {evs[i].ID : i \in 1..Len(evs)}

\* faulty variant: a file is only looked up against the first fetched event
removeLocalEventsNotFirst(st, evs) ==
  [id \in Ids |-> IF evs # <<>> /\ id = evs[1].ID THEN st[id] ELSE NoFile]

\* removeLocalEventsNotInCalendar
removeLocalEventsNotInCalendar(st, evs) ==
  [id \in Ids |-> IF id \in SeqIds(evs) THEN st[id] ELSE NoFile]

\* ------------------------------------------------------------------- state
VARIABLES
  now,                  \* the wall clock
  NotificationRepeats,  \* SysConfig.NotificationRepeats
  store,                \* the events directory: id -> record or NoFile
  calendar,             \* the remote calendar: id -> CalendarEvent
  rpc,                  \* reminder loop: "sleep", "loop", "speak", "crashed"
  rwake,                \* end of the reminder loop's sleep
  events,               \* the not yet visited part of the batch
  e,                    \* the loop variable e of remindCurrentEvents
  stage,                \* the check the loop body goes on with for e
  decision,             \* the branch taken for e
  spc,                  \* sync loop: "sleep", "save"
  swake,                \* end of the sync loop's sleep
  todayEvents,          \* the fetched events of the running sync
  saveIdx,              \* position of syncLocalEvents in todayEvents
  evalE,                \* history: e as it was when last evaluated
  evalAt,               \* history: the clock reading of that evaluation
  evalFrom,             \* history: the check that evaluation started from
  tickFired,            \* history: kinds spoken per id in the running batch
  spoken,               \* history: one-shot notifications spoken per id and kind
  alwaysFetched,        \* history: every fetch so far contained the id
  lastFired,            \* history: LastTimeReminded written by the last start
                        \*          announcement or reminder of the id
  lastKind,             \* history: the kind of that notification
  prunedSince,          \* history: the record was deleted since then
  syncEvent,            \* the mutex syncEvent: "free" or the loop holding it
  eJson,                \* the bytes saveEventLocally is about to write
  batchStart,           \* history: the clock when the running batch began
  batchEnd,             \* history: the clock when the last batch returned
  cfgAtStart,           \* history: the repeat count when the batch began
  failed,               \* history: kinds per id whose aiSpeak failed
  MessageTemplate,      \* SysConfig.*MessageTemplate of the kind rendered
  speech,               \* the text handed to announceTask
  sessions,             \* SessionManager.sessions: id -> Session
  issued,               \* history: the session ids createSession has drawn
  resp,                 \* history: the last request served and its status
  files,                \* config.yaml, secrets.yaml and the log file
  SysSecrets            \* SysSecrets.WebServerPassword

vars == <<now, NotificationRepeats, store, calendar, rpc, rwake, events, e,
          stage, decision, spc, swake, todayEvents, saveIdx, evalE, evalAt,
          evalFrom, tickFired, spoken, alwaysFetched, lastFired, lastKind,
          prunedSince, syncEvent, eJson, batchStart, batchEnd, cfgAtStart,
          failed, MessageTemplate, speech, sessions, issued, resp, files,
          SysSecrets>>

remVars == <<rpc, rwake, events, e, stage, decision>>
syncVars == <<spc, swake, todayEvents, saveIdx>>
histEval == <<evalE, evalAt, evalFrom>>
histFired == <<lastFired, lastKind, prunedSince>>
lockVars == <<syncEvent, eJson>>
histBatch == <<batchStart, batchEnd, cfgAtStart, failed>>
renderVars == <<MessageTemplate, speech>>
webVars == <<sessions, issued, resp, files, SysSecrets>>

\* an unset template (the empty string) and an empty text
Unset == <<>>

\* ---------------------------------------------------------- the web server
\* const sessionTimeout = 30 * time.Minute
sessionTimeout == 30 * Minute
\* the size limit handleConfigSave and handleSecretsSave pass on: 1024*1024
MaxFileSize == 1024 * 1024

\* session ids and CSRF tokens: createSession draws both at random, so an
\* id is drawn once and every id has a token of its own
SessionIds == {"s1", "s2"}
csrfTokenOf(id) == IF id = "s1" THEN "t1" ELSE "t2"
\* a request without the session cookie, and one without a token
NoCookie == "nocookie"
NoToken == ""

\* A YAML document for the Config structure: the fields it names, and
\* their values (the zero value for a field it leaves out).  A blank
\* document is the empty file.
ConfigDoc(fields, repeats, template) ==
  [blank |-> FALSE, has |-> fields,
   notification_repeats |->
     IF "notification_repeats" \in fields THEN repeats ELSE 0,
   remind_message_template |->
     IF "remind_message_template" \in fields THEN template ELSE Unset]
BlankConfig ==
  [blank |-> TRUE, has |-> {}, notification_repeats |-> 0,
   remind_message_template |-> Unset]
\* the same for the Secrets structure
SecretsDoc(fields, password) ==
  [blank |-> FALSE, has |-> fields,
   web_server_password |->
     IF "web_server_password" \in fields THEN password ELSE ""]
BlankSecrets == [blank |-> TRUE, has |-> {}, web_server_password |-> ""]

\* the configuration file that holds the configuration in memory
configFileOf(repeats, template) ==
  ConfigDoc({"notification_repeats"} \cup
              (IF template = Unset THEN {} ELSE {"remind_message_template"}),
            repeats, template)
InstalledPassword == "hash1"

NoRequest == [endpoint |-> "", status |-> 0]

\* the web server has served nothing yet: nobody is logged in, the files
\* are the ones the process loaded at its start
webIdle ==
  /\ sessions = [id \in {} |-> NoRequest]
  /\ issued = {}
  /\ resp = NoRequest
  /\ files = [config |-> configFileOf(NotificationRepeats, MessageTemplate),
              secrets |-> SecretsDoc({"web_server_password"}, InstalledPassword),
              log |-> "lines"]
  /\ SysSecrets = InstalledPassword

MaxCount == 2
Bump(n) == IF n < MaxCount THEN n + 1 ELSE n
NothingSpoken == [k \in Kinds |-> 0]

\* loadConfig: non-positive repeat counts fall back to the default
loadConfig(configured) ==
  IF configured <= 0 THEN DefaultNotificationRepeats ELSE configured

\* the remote calendar when the program starts
InitialCalendar == [id \in Ids |-> IF id = "A" THEN EventA ELSE EventB]

Init ==
  /\ now = T0
  /\ \E c \in ConfiguredRepeats : NotificationRepeats = loadConfig(c)
  /\ store = [id \in Ids |-> NoFile]
  /\ calendar = InitialCalendar
  /\ rpc = "sleep" /\ rwake = ZeroTime /\ events = <<>> /\ e = NoFile
  /\ stage = NextEvent /\ decision = "None"
  /\ spc = "sleep" /\ swake = ZeroTime /\ todayEvents = <<>> /\ saveIdx = 1
  /\ evalE = NoFile /\ evalAt = ZeroTime /\ evalFrom = 1
  /\ tickFired = [id \in Ids |-> {}]
  /\ spoken = [id \in Ids |-> NothingSpoken]
  /\ alwaysFetched = [id \in Ids |-> TRUE]
  /\ lastFired = [id \in Ids |-> ZeroTime]
  /\ lastKind = [id \in Ids |-> "None"]
  /\ prunedSince = [id \in Ids |-> FALSE]
  /\ syncEvent = "free" /\ eJson = NoFile
  /\ batchStart = ZeroTime /\ batchEnd = ZeroTime
  /\ cfgAtStart = NotificationRepeats
  /\ failed = [id \in Ids |-> {}]
  /\ MessageTemplate = Unset /\ speech = <<>>
  /\ webIdle

\* ------------------------------------------------------------- environment
\* Time passes while the loops sleep, while the batch waits between loading
\* and its loop, and while a notification is spoken.  Reading and writing an
\* event file takes less than a clock step, and the sync loop never reads
\* the clock between its fetch and its sleep.
RemCanWait ==
  \/ rpc \in {"sleep", "speak", "crashed"}
  \/ rpc = "loop" /\ stage > LastStage /\ evalE = NoFile
SyncCanWait == spc = "sleep"

Tick ==
  /\ now < MaxClock
  /\ RemCanWait /\ SyncCanWait
  /\ now' = now + ClockStep
  /\ UNCHANGED <<webVars, histBatch, renderVars, lockVars, NotificationRepeats, store, calendar, remVars, syncVars,
                 histEval, tickFired, spoken, alwaysFetched, histFired>>

\* the user edits an event in the remote calendar
CalendarEdit ==
  /\ \E id \in Ids :
       /\ calendar[id] \in {EventA, EventB}
       /\ calendar' = [calendar EXCEPT ![id] = EditOf(@)]
  /\ UNCHANGED <<webVars, histBatch, renderVars, lockVars, now, NotificationRepeats, store, remVars, syncVars,
                 histEval, tickFired, spoken, alwaysFetched, histFired>>

\* --------------------------------------------------------------- sync loop
RECURSIVE fetchFrom(_, _, _)
fetchFrom(cal, got, i) ==
  IF i > Len(DirOrder) THEN <<>>
  ELSE (IF DirOrder[i] \in got
        THEN <<cal[DirOrder[i]]>> ELSE <<>>) \o fetchFrom(cal, got, i + 1)

\* getCalEvents: the events of the calendars whose query succeeded (each id
\* lives in a calendar of its own); a failed session yields the empty list
getCalEvents(cal, got) == fetchFrom(cal, got, 1)

\* the sets of calendars whose query can succeed in one fetch
FetchOutcomes == {Ids, {}}

SyncFetch ==
  /\ rpc # "crashed"
  /\ spc = "sleep" /\ now >= swake
  /\ \E got \in FetchOutcomes :
       /\ todayEvents' = getCalEvents(calendar, got)
       /\ alwaysFetched' = [id \in Ids |->
                              alwaysFetched[id] /\ id \in SeqIds(todayEvents')]
       /\ spoken' = [id \in Ids |-> IF alwaysFetched'[id] THEN spoken[id]
                                    ELSE NothingSpoken]
  /\ saveIdx' = 1
  /\ spc' = "save" /\ swake' = ZeroTime
  /\ UNCHANGED <<webVars, histBatch, renderVars, lockVars, now, NotificationRepeats, store, calendar, remVars,
                 histEval, tickFired, histFired>>

\* one iteration of the loop of syncLocalEvents
SyncSave ==
  /\ rpc # "crashed"
  /\ spc = "save" /\ saveIdx <= Len(todayEvents)
  /\ store' = saveEventLocally(store, todayEvents[saveIdx])
  /\ saveIdx' = saveIdx + 1
  /\ UNCHANGED <<webVars, histBatch, renderVars, lockVars, now, NotificationRepeats, calendar, remVars, spc, swake,
                 todayEvents, histEval, tickFired, spoken, alwaysFetched, histFired>>

\* removeLocalEventsNotInCalendar, then the sleep of refreshTasks
SyncPrune ==
  /\ rpc # "crashed"
  /\ spc = "save" /\ saveIdx > Len(todayEvents)
  /\ store' = removeLocalEventsNotInCalendar(store, todayEvents)
  /\ prunedSince' = [id \in Ids |->
                       \/ prunedSince[id]
                       \/ store[id] # NoFile /\ store'[id] = NoFile /\ lastKind[id] # "None"]
  /\ spc' = "sleep" /\ swake' = now + SyncSleep
  /\ todayEvents' = <<>> /\ saveIdx' = 1
  /\ UNCHANGED <<webVars, histBatch, renderVars, lockVars, now, NotificationRepeats, calendar, remVars,
                 histEval, tickFired, spoken, alwaysFetched, lastFired, lastKind>>

\* ----------------------------------------------------------- reminder loop
RemLoad ==
  /\ rpc = "sleep" /\ now >= rwake
  /\ events' = loadTodayEvents(store, now)
  /\ rpc' = "loop" /\ rwake' = ZeroTime
  /\ UNCHANGED <<webVars, histBatch, renderVars, lockVars, now, NotificationRepeats, store, calendar, e, stage,
                 decision, syncVars, histEval, tickFired, spoken, alwaysFetched,
                 histFired>>

\* faulty variant: the start branch only calls setStartAnnounced
setFlagsStartNotReminded(cur, d, t) ==
  IF d = "AnnounceStart" THEN [cur EXCEPT !.StartAnnounced = TRUE]
  ELSE IF d = "CheckStarted" THEN [cur EXCEPT !.CheckStartAnnounced = TRUE]
  ELSE IF d = "Remind" THEN [cur EXCEPT !.LastTimeReminded = t]
  ELSE IF d = "AnnounceEnd" THEN [cur EXCEPT !.EndAnnounced = TRUE]
  ELSE cur

\* the set* calls of the branch taken: each sets its field in the caller's
\* copy and writes the copy over the file (updateEvent); the start branch
\* calls setStartAnnounced and then setReminded
setFlags(cur, d, t) ==
  IF d = "AnnounceStart"
  THEN [cur EXCEPT !.StartAnnounced = TRUE, !.LastTimeReminded = t]
  ELSE IF d = "CheckStarted" THEN [cur EXCEPT !.CheckStartAnnounced = TRUE]
  ELSE IF d = "Remind" THEN [cur EXCEPT !.LastTimeReminded = t]
  ELSE IF d = "AnnounceEnd" THEN [cur EXCEPT !.EndAnnounced = TRUE]
  ELSE cur

\* One pass through the loop body up to the call of announceTask: the
\* should* calls and the set* calls of the branch taken.
RemDecide ==
  /\ rpc = "loop"
  /\ stage <= LastStage \/ events # <<>>
  /\ LET cur == IF stage <= LastStage THEN e ELSE Head(events)
         from == IF stage <= LastStage THEN stage ELSE 1
         d == Decide(cur, now, NotificationRepeats, from)
     IN /\ events' = IF stage <= LastStage THEN events ELSE Tail(events)
        /\ evalE' = cur /\ evalAt' = now /\ evalFrom' = from
        /\ decision' = d
        /\ IF d = "None"
           THEN rpc' = "loop" /\ e' = NoFile /\ stage' = NextEvent
                /\ UNCHANGED <<store, histFired>>
           ELSE IF d = "panic"
           THEN rpc' = "crashed" /\ e' = cur /\ stage' = from
                /\ UNCHANGED <<store, histFired>>
           ELSE /\ rpc' = "speak" /\ stage' = from
                /\ e' = setFlags(cur, d, now)
                /\ store' = updateEvent(store, e')
                /\ IF d \in {"AnnounceStart", "Remind"}
                   THEN /\ lastFired' = [lastFired EXCEPT ![cur.Event.ID] = e'.LastTimeReminded]
                        /\ lastKind' = [lastKind EXCEPT ![cur.Event.ID] = d]
                        /\ prunedSince' = [prunedSince EXCEPT ![cur.Event.ID] = FALSE]
                   ELSE UNCHANGED histFired
  /\ UNCHANGED <<webVars, histBatch, renderVars, lockVars, now, NotificationRepeats, calendar, rwake, syncVars,
                 tickFired, spoken, alwaysFetched>>

\* render the message and announceTask: a failed aiSpeak is only logged
RemSpeak ==
  /\ rpc = "speak"
  /\ spoken' = IF alwaysFetched[e.Event.ID]
               THEN [spoken EXCEPT ![e.Event.ID][decision] = Bump(@)]
               ELSE spoken
  /\ tickFired' = [tickFired EXCEPT ![e.Event.ID] = @ \cup {decision}]
  /\ stage' = AfterSpeak(decision)
  /\ e' = IF stage' <= LastStage THEN e ELSE NoFile
  /\ rpc' = "loop"
  /\ UNCHANGED <<webVars, histBatch, renderVars, lockVars, now, NotificationRepeats, store, calendar, rwake, events,
                 decision, syncVars, histEval, alwaysFetched, histFired>>

\* the batch is over: sleep of the main loop
RemFinish ==
  /\ rpc = "loop"
  /\ stage > LastStage /\ events = <<>>
  /\ rpc' = "sleep" /\ rwake' = now + RemindSleep
  /\ e' = NoFile /\ decision' = "None"
  /\ tickFired' = [id \in Ids |-> {}]
  /\ evalE' = NoFile /\ evalAt' = ZeroTime /\ evalFrom' = 1
  /\ UNCHANGED <<webVars, histBatch, renderVars, lockVars, now, NotificationRepeats, store, calendar, events, stage,
                 syncVars, spoken, alwaysFetched, histFired>>

Next ==
  \/ Tick
  \/ CalendarEdit
  \/ SyncFetch
  \/ SyncSave
  \/ SyncPrune
  \/ RemLoad
  \/ RemDecide
  \/ RemSpeak
  \/ RemFinish

Spec == Init /\ [][Next]_vars

TypeOK ==
  /\ now \in T0..MaxClock
  /\ NotificationRepeats \in 1..3
  /\ rpc \in {"sleep", "loop", "speak", "crashed"}
  /\ spc \in {"sleep", "save"}
  /\ decision \in Kinds \cup {"None", "panic"}

\* ==================================================================
\* Properties
\* ==================================================================
Lifecycle(r) ==
  <<r.StartAnnounced, r.CheckStartAnnounced, r.EndAnnounced, r.LastTimeReminded>>

\* an event of the batch has gone through the whole if-chain
Evaluated == evalE # NoFile /\ evalFrom = 1

SameDay(a, b) == (a \div Day) = (b \div Day)

\* C1: in one reminder batch at most one kind of notification is spoken per
\* event, and the kind spoken is the first of AnnounceStart, CheckStarted,
\* Remind, AnnounceEnd whose condition holds.
C1_OneKindPerTick ==
  /\ \A id \in Ids : Cardinality(tickFired[id]) <= 1
  /\ rpc = "speak" =>
       /\ decision = "CheckStarted" => ~shouldAnnounceEventStart(evalE, evalAt)
       /\ decision = "Remind" =>
            /\ ~shouldAnnounceEventStart(evalE, evalAt)
            /\ ~shouldCheckEventStarted(evalE, evalAt)
       /\ decision = "AnnounceEnd" =>
            /\ ~shouldAnnounceEventStart(evalE, evalAt)
            /\ ~shouldCheckEventStarted(evalE, evalAt)
            /\ ~shouldRemindEvent(evalE, evalAt, NotificationRepeats)

\* a reminder was spoken for A while its end announcement was due as well,
\* and the batch went on without announcing the end
C1_Witness ==
  /\ rpc = "loop" /\ tickFired["A"] = {"Remind"}
  /\ evalE # NoFile /\ evalE.Event.ID = "A"
  /\ shouldAnnounceEventEnd(evalE, evalAt)
  /\ now = evalAt

C3_SaveCarriesForward ==
  [][ (spc = "save" /\ saveIdx' = saveIdx + 1) =>
        LET ev == todayEvents[saveIdx]
        IN /\ store'[ev.ID] # NoFile
           /\ store'[ev.ID].Event = ev
           /\ store[ev.ID] # NoFile =>
                Lifecycle(store'[ev.ID]) = Lifecycle(store[ev.ID])
           /\ saveEventLocally(store', ev) = store' ]_vars

\* the moved event has just been saved over the record of A whose start was
\* announced at T0
C3_Witness ==
  /\ spc = "save" /\ saveIdx = 2 /\ todayEvents[1] = EventAMoved
  /\ store["A"] # NoFile /\ store["A"].Event = EventAMoved
  /\ store["A"].StartAnnounced /\ store["A"].LastTimeReminded = T0

\* the step of a batch that takes a branch for an event
Fires == rpc = "loop" /\ rpc' = "speak"

Duration(ev) == ev.EndTime - ev.StartTime

\* C4 as claimed: AnnounceStart is decided iff StartAnnounced is false, the
\* event is scheduled for today and start <= now < end.
C4_Original ==
  Evaluated =>
    ( decision = "AnnounceStart" <=>
        /\ ~evalE.StartAnnounced
        /\ SameDay(evalE.Event.StartTime, evalAt)
        /\ evalE.Event.StartTime <= evalAt
        /\ evalAt < evalE.Event.EndTime )

\* C4 amended: for an event of the batch, AnnounceStart is decided iff
\* StartAnnounced is false, the event is scheduled for today and
\* start < now < end, both ends exclusive.
C4_AnnounceStartWindow ==
  Evaluated =>
    ( decision = "AnnounceStart" <=>
        /\ ~evalE.StartAnnounced
        /\ SameDay(evalE.Event.StartTime, evalAt)
        /\ evalE.Event.StartTime < evalAt
        /\ evalAt < evalE.Event.EndTime )

\* the start is announced at the first clock reading after the start time
C4_Witness ==
  /\ Evaluated /\ rpc = "speak" /\ decision = "AnnounceStart"
  /\ evalAt = evalE.Event.StartTime + ClockStep

C6_Original ==
  /\ Evaluated =>
       ( decision = "CheckStarted" <=>
           /\ decision # "AnnounceStart"
           /\ SameDay(evalE.Event.StartTime, evalAt)
           /\ evalE.StartAnnounced /\ ~evalE.CheckStartAnnounced
           /\ evalAt >= evalE.Event.StartTime + Minute )
  /\ (rpc = "speak" /\ decision = "CheckStarted") => e.CheckStartAnnounced

\* C6 amended: as claimed, but with now > start + 1 minute (exclusive).
C6_CheckStartedAfterMinute ==
  /\ Evaluated =>
       ( decision = "CheckStarted" <=>
           /\ decision # "AnnounceStart"
           /\ SameDay(evalE.Event.StartTime, evalAt)
           /\ evalE.StartAnnounced /\ ~evalE.CheckStartAnnounced
           /\ evalAt > evalE.Event.StartTime + Minute )
  /\ (rpc = "speak" /\ decision = "CheckStarted") => e.CheckStartAnnounced

\* the check fires at the first clock reading after start + 1 minute
C6_Witness ==
  /\ Evaluated /\ rpc = "speak" /\ decision = "CheckStarted"
  /\ evalAt = evalE.Event.StartTime + Minute + ClockStep
  /\ e.CheckStartAnnounced

IntervalOver(r, t, reps) ==
  /\ r.LastTimeReminded # ZeroTime
  /\ r.Event.StartTime <= t /\ t <= r.Event.EndTime
  /\ (t - r.LastTimeReminded) * reps >= Duration(r.Event)

IntervalPassed(r, t, reps) ==
  /\ r.LastTimeReminded # ZeroTime
  /\ r.Event.StartTime <= t /\ t <= r.Event.EndTime
  /\ (t - r.LastTimeReminded) * reps > Duration(r.Event)

EndDue(r, t) ==
  /\ ~r.EndAnnounced
  /\ SameDay(r.Event.StartTime, t)
  /\ r.Event.EndTime - Minute <= t /\ t <= r.Event.EndTime + Minute

LoadedIds == {events[i].Event.ID : i \in 1..Len(events)}

\* C9 as claimed: in a batch AnnounceEnd is decided for a stored event iff
\* no higher-priority decision fired for it, EndAnnounced is false, the
\* event is scheduled for today and end - 1 minute <= now <= end + 1 minute;
\* it sets EndAnnounced.
C9_Original ==
  [][ /\ (rpc = "sleep" /\ rpc' = "loop") =>
           \A id \in Ids :
             ( /\ store[id] # NoFile
               /\ EndDue(store[id], now)
               /\ ~shouldAnnounceEventStart(store[id], now)
               /\ ~shouldCheckEventStarted(store[id], now)
               /\ ~shouldRemindEvent(store[id], now, NotificationRepeats) )
             => id \in LoadedIds'
      /\ ( /\ Evaluated =>
                ( decision = "AnnounceEnd" <=>
                    /\ decision \notin {"AnnounceStart", "CheckStarted", "Remind"}
                    /\ EndDue(evalE, evalAt) )
           /\ (rpc = "speak" /\ decision = "AnnounceEnd") => e.EndAnnounced )'
    ]_vars

\* C10 as claimed: an event with end <= start never gets a Remind, and its
\* evaluation neither fails nor divides by a non-positive number.
C10_Original ==
  /\ (Evaluated /\ evalE.Event.EndTime <= evalE.Event.StartTime) =>
       decision \notin {"Remind", "panic"}
  /\ (Evaluated /\ decision \notin {"AnnounceStart", "CheckStarted"}
        /\ remindGuard(evalE, evalAt)) => NotificationRepeats > 0

\* ==================================================================
\* Configuration reload from the web editor (handleConfigSave -> loadConfig)
\* ==================================================================
\* loadConfig decodes the file straight into the global SysConfig and only
\* then replaces a non-positive repeat count.  The web server runs the
\* handler in a goroutine of its own, and the reminder loop reads
\* SysConfig.NotificationRepeats without synchronisation, so the two writes
\* of loadConfig are two steps.

\* decoder.Decode(&SysConfig): the field takes the value of the file
loadConfigDecode ==
  /\ rpc # "crashed"
  /\ NotificationRepeats > 0
  /\ \E c \in ConfiguredRepeats : NotificationRepeats' = c
  /\ UNCHANGED <<webVars, histBatch, renderVars, lockVars, now, store, calendar, remVars, syncVars, histEval,
                 tickFired, spoken, alwaysFetched, histFired>>

\* if SysConfig.NotificationRepeats <= 0 { ... = DefaultNotificationRepeats }
loadConfigFix ==
  /\ rpc # "crashed"
  /\ NotificationRepeats <= 0
  /\ NotificationRepeats' = loadConfig(NotificationRepeats)
  /\ UNCHANGED <<webVars, histBatch, renderVars, lockVars, now, store, calendar, remVars, syncVars, histEval,
                 tickFired, spoken, alwaysFetched, histFired>>

\* the clock does not advance inside loadConfig
TickReload == NotificationRepeats > 0 /\ Tick

NextReload ==
  \/ TickReload
  \/ SyncFetch
  \/ SyncSave
  \/ SyncPrune
  \/ RemLoad
  \/ RemDecide
  \/ RemSpeak
  \/ RemFinish
  \/ loadConfigDecode
  \/ loadConfigFix

SpecReload == Init /\ [][NextReload]_vars

\* C11 as claimed: the repeat count that the Remind decision divides by is
\* always >= 1, also while the web editor reloads the configuration: no
\* evaluation reaches the division with a count below one (with a count of
\* zero the division panics and the process dies).
C11_Original == decision # "panic"

\* ==================================================================
\* The if-chain of remindCurrentEvents as a function of the record, the
\* clock and the repeat count
\* ==================================================================
Flags == {FALSE, TRUE}
InputTimes == {ZeroTime, T0, T0 + Minute}
InputRecords ==
  [Event : CalendarVersions, StartAnnounced : Flags,
   CheckStartAnnounced : Flags, EndAnnounced : Flags,
   LastTimeReminded : InputTimes]
InputClock == {T0 + k * ClockStep : k \in 0..MaxTicks}

InitDecide ==
  /\ now \in InputClock
  /\ \E c \in ConfiguredRepeats : NotificationRepeats = loadConfig(c)
  /\ store = [id \in Ids |-> NoFile]
  /\ calendar = InitialCalendar
  /\ rpc = "loop" /\ rwake = ZeroTime /\ events = <<>>
  /\ e \in InputRecords
  /\ stage = 1 /\ decision = "None"
  /\ spc = "sleep" /\ swake = ZeroTime /\ todayEvents = <<>> /\ saveIdx = 1
  /\ evalE = NoFile /\ evalAt = ZeroTime /\ evalFrom = 1
  /\ tickFired = [id \in Ids |-> {}]
  /\ spoken = [id \in Ids |-> NothingSpoken]
  /\ alwaysFetched = [id \in Ids |-> TRUE]
  /\ lastFired = [id \in Ids |-> ZeroTime]
  /\ lastKind = [id \in Ids |-> "None"]
  /\ prunedSince = [id \in Ids |-> FALSE]
  /\ syncEvent = "free" /\ eJson = NoFile
  /\ batchStart = ZeroTime /\ batchEnd = ZeroTime
  /\ cfgAtStart = NotificationRepeats
  /\ failed = [id \in Ids |-> {}]
  /\ MessageTemplate = Unset /\ speech = <<>>
  /\ webIdle

\* the four should* calls for e, without the writes of the branch taken
DecideInput ==
  /\ rpc = "loop" /\ stage = 1 /\ evalE = NoFile
  /\ evalE' = e /\ evalAt' = now /\ evalFrom' = 1
  /\ decision' = Decide(e, now, NotificationRepeats, 1)
  /\ stage' = NextEvent
  /\ UNCHANGED <<webVars, histBatch, renderVars, lockVars, now, NotificationRepeats, store, calendar, rpc, rwake,
                 events, e, syncVars, tickFired, spoken, alwaysFetched,
                 histFired>>

NextDecide == DecideInput

SpecDecide == InitDecide /\ [][NextDecide]_vars

\* C12: for an event with no end time (zero end) the if-chain decides
\* AnnounceStart, CheckStarted or nothing, never Remind or AnnounceEnd.
C12_NoEndNoRemindNoEnd ==
  (Evaluated /\ evalE.Event.EndTime = ZeroTime) =>
    decision \in {"AnnounceStart", "CheckStarted", "None"}

\* an event with no end time, started and not marked ended, is evaluated
\* and gets the check of its start
C12_Witness ==
  /\ Evaluated /\ evalE.Event.EndTime = ZeroTime
  /\ ~evalE.EndAnnounced /\ evalAt >= evalE.Event.StartTime
  /\ decision = "CheckStarted"

\* ==================================================================
\* The store operations step by step: the mutex syncEvent, os.WriteFile
\* (open with O_TRUNC, then write), failing writes, and a crash of the
\* process
\* ==================================================================
\* sync loop:     "sleep", "save" (in the loop of syncLocalEvents), "saving"
\*                (saveEventLocally holds the lock), "writing" (its file is
\*                open and truncated), "pruning", "failed" (syncLocalEvents
\*                returned an error), "down"
\* reminder loop: "sleep", "loading", "loop", "update" (a set* call waits for
\*                the lock), "updating", "uwriting", "speak", "down"
SyncCritical == {"saving", "writing", "pruning"}
RemCritical == {"loading", "updating", "uwriting"}

\* number of clock steps followed step by step
MaxStoreTicks == 3

\* outcomes of a system call on an event file
Outcomes == {"ok", "fail"}

\* the sets of calendars whose query can succeed in one fetch
FetchSubsets == SUBSET Ids

\* faulty variant: the mutex is not waited for
TryLockHeld(m) == TRUE

\* syncEvent.Lock() returns once the mutex is free
TryLock(m) == m = "free"

\* faulty variant: a failed save is logged and the loop goes on
afterSaveErrorGoOn(idx) == [pc |-> "save", idx |-> idx + 1]

\* syncLocalEvents returns the error of saveEventLocally at once
afterSaveError(idx) == [pc |-> "failed", idx |-> idx]

StoreFetch ==
  /\ spc = "sleep" /\ now >= swake
  /\ \E got \in FetchSubsets : todayEvents' = getCalEvents(calendar, got)
  /\ saveIdx' = 1 /\ spc' = "save" /\ swake' = ZeroTime
  /\ UNCHANGED <<webVars, histBatch, renderVars, now, NotificationRepeats, store, calendar, remVars,
                 histEval, tickFired, spoken, alwaysFetched, histFired, lockVars>>

\* faulty variant: saveEventLocally returns with the mutex still locked
saveEventKeepsLock == "sync"

\* defer syncEvent.Unlock() of saveEventLocally
saveEventUnlock == "free"

\* saveEventLocally up to json.MarshalIndent
SaveLock ==
  /\ spc = "save" /\ saveIdx <= Len(todayEvents)
  /\ TryLock(syncEvent)
  /\ syncEvent' = "sync" /\ spc' = "saving"
  /\ eJson' = saveEventLocally(store, todayEvents[saveIdx])[todayEvents[saveIdx].ID]
  /\ UNCHANGED <<webVars, histBatch, renderVars, now, NotificationRepeats, store, calendar, remVars, swake,
                 todayEvents, saveIdx, histEval, tickFired, spoken,
                 alwaysFetched, histFired>>

\* os.WriteFile opens the file with O_TRUNC
SaveOpen ==
  /\ spc = "saving"
  /\ \E r \in Outcomes :
       IF r = "ok"
       THEN /\ store' = [store EXCEPT ![eJson.Event.ID] = Corrupt]
            /\ spc' = "writing"
            /\ UNCHANGED <<syncEvent, eJson, saveIdx>>
       ELSE /\ spc' = afterSaveError(saveIdx).pc
            /\ saveIdx' = afterSaveError(saveIdx).idx
            /\ syncEvent' = saveEventUnlock /\ eJson' = NoFile
            /\ UNCHANGED store
  /\ UNCHANGED <<webVars, histBatch, renderVars, now, NotificationRepeats, calendar, remVars, swake,
                 todayEvents, histEval, tickFired, spoken, alwaysFetched,
                 histFired>>

\* os.WriteFile writes the bytes and closes the file
SaveWrite ==
  /\ spc = "writing"
  /\ \E r \in Outcomes :
       IF r = "ok"
       THEN /\ store' = [store EXCEPT ![eJson.Event.ID] = eJson]
            /\ spc' = "save" /\ saveIdx' = saveIdx + 1
       ELSE /\ spc' = afterSaveError(saveIdx).pc
            /\ saveIdx' = afterSaveError(saveIdx).idx
            /\ UNCHANGED store
  /\ syncEvent' = saveEventUnlock /\ eJson' = NoFile
  /\ UNCHANGED <<webVars, histBatch, renderVars, now, NotificationRepeats, calendar, remVars, swake,
                 todayEvents, histEval, tickFired, spoken, alwaysFetched,
                 histFired>>

\* faulty variant: the error of syncLocalEvents is logged with logrus.Fatal
onSyncErrorFatal == "down"

\* refreshTasks logs the error with logrus.Error and goes on to its sleep
onSyncError == "sleep"

\* refreshTasks logs the error of syncLocalEvents and sleeps
SyncFailed ==
  /\ spc = "failed"
  /\ spc' = onSyncError /\ swake' = now + SyncSleep
  /\ todayEvents' = <<>> /\ saveIdx' = 1
  /\ UNCHANGED <<webVars, histBatch, renderVars, now, NotificationRepeats, store, calendar, remVars,
                 histEval, tickFired, spoken, alwaysFetched, histFired, lockVars>>

PruneLock ==
  /\ spc = "save" /\ saveIdx > Len(todayEvents)
  /\ TryLock(syncEvent)
  /\ syncEvent' = "sync" /\ spc' = "pruning"
  /\ UNCHANGED <<webVars, histBatch, renderVars, now, NotificationRepeats, store, calendar, remVars, swake,
                 todayEvents, saveIdx, histEval, tickFired, spoken,
                 alwaysFetched, histFired, eJson>>

\* the loop of removeLocalEventsNotInCalendar, then the sleep of refreshTasks
PruneRun ==
  /\ spc = "pruning"
  /\ store' = removeLocalEventsNotInCalendar(store, todayEvents)
  /\ syncEvent' = "free"
  /\ spc' = "sleep" /\ swake' = now + SyncSleep
  /\ todayEvents' = <<>> /\ saveIdx' = 1
  /\ UNCHANGED <<webVars, histBatch, renderVars, now, NotificationRepeats, calendar, remVars, histEval,
                 tickFired, spoken, alwaysFetched, histFired, eJson>>

LoadLock ==
  /\ rpc = "sleep" /\ now >= rwake
  /\ TryLock(syncEvent)
  /\ syncEvent' = "rem" /\ rpc' = "loading" /\ rwake' = ZeroTime
  /\ UNCHANGED <<webVars, histBatch, renderVars, now, NotificationRepeats, store, calendar, events, e, stage,
                 decision, syncVars, histEval, tickFired, spoken,
                 alwaysFetched, histFired, eJson>>

LoadRun ==
  /\ rpc = "loading"
  /\ events' = loadTodayEvents(store, now)
  /\ syncEvent' = "free" /\ rpc' = "loop"
  /\ UNCHANGED <<webVars, histBatch, renderVars, now, NotificationRepeats, store, calendar, rwake, e, stage,
                 decision, syncVars, histEval, tickFired, spoken,
                 alwaysFetched, histFired, eJson>>

\* the should* calls for the next event and the field assignments of the
\* set* calls of the branch taken
StoreDecide ==
  /\ rpc = "loop"
  /\ events # <<>>
  /\ LET cur == Head(events)
         d == Decide(cur, now, NotificationRepeats, 1)
     IN /\ events' = Tail(events)
        /\ evalE' = cur /\ evalAt' = now /\ evalFrom' = 1
        /\ decision' = d
        /\ IF d \in Kinds
           THEN rpc' = "update" /\ e' = setFlags(cur, d, now) /\ stage' = 1
           ELSE rpc' = "loop" /\ e' = NoFile /\ stage' = NextEvent
  /\ UNCHANGED <<webVars, histBatch, renderVars, now, NotificationRepeats, store, calendar, rwake, syncVars,
                 tickFired, spoken, alwaysFetched, histFired, lockVars>>

\* faulty variant: updateEvent returns with the mutex still locked
updateEventKeepsLock == "rem"

\* defer syncEvent.Unlock() of updateEvent
updateEventUnlock == "free"

UpdateLock ==
  /\ rpc = "update"
  /\ TryLock(syncEvent)
  /\ syncEvent' = "rem" /\ rpc' = "updating"
  /\ UNCHANGED <<webVars, histBatch, renderVars, now, NotificationRepeats, store, calendar, rwake, events, e,
                 stage, decision, syncVars, histEval, tickFired, spoken,
                 alwaysFetched, histFired, eJson>>

\* os.WriteFile of updateEvent opens the file with O_TRUNC; the error that
\* set* returns is dropped by remindCurrentEvents
UpdateOpen ==
  /\ rpc = "updating"
  /\ \E r \in Outcomes :
       IF r = "ok"
       THEN /\ store' = [store EXCEPT ![e.Event.ID] = Corrupt]
            /\ rpc' = "uwriting" /\ UNCHANGED syncEvent
       ELSE /\ rpc' = "speak" /\ syncEvent' = updateEventUnlock
            /\ UNCHANGED store
  /\ UNCHANGED <<webVars, histBatch, renderVars, now, NotificationRepeats, calendar, rwake, events, e, stage,
                 decision, syncVars, histEval, tickFired, spoken,
                 alwaysFetched, histFired, eJson>>

UpdateWrite ==
  /\ rpc = "uwriting"
  /\ \E r \in Outcomes :
       IF r = "ok"
       THEN store' = [store EXCEPT ![e.Event.ID] = e]
       ELSE UNCHANGED store
  /\ rpc' = "speak" /\ syncEvent' = updateEventUnlock
  /\ UNCHANGED <<webVars, histBatch, renderVars, now, NotificationRepeats, calendar, rwake, events, e, stage,
                 decision, syncVars, histEval, tickFired, spoken,
                 alwaysFetched, histFired, eJson>>

\* render the message and announceTask
StoreSpeak ==
  /\ rpc = "speak"
  /\ rpc' = "loop" /\ e' = NoFile /\ stage' = AfterSpeak(decision)
  /\ UNCHANGED <<webVars, histBatch, renderVars, now, NotificationRepeats, store, calendar, rwake, events,
                 decision, syncVars, histEval, tickFired, spoken,
                 alwaysFetched, histFired, lockVars>>

\* the batch is over: sleep of the main loop
StoreFinish ==
  /\ rpc = "loop" /\ events = <<>>
  /\ rpc' = "sleep" /\ rwake' = now + RemindSleep
  /\ e' = NoFile /\ decision' = "None" /\ stage' = NextEvent
  /\ evalE' = NoFile /\ evalAt' = ZeroTime /\ evalFrom' = 1
  /\ UNCHANGED <<webVars, histBatch, renderVars, now, NotificationRepeats, store, calendar, events,
                 syncVars, tickFired, spoken, alwaysFetched, histFired, lockVars>>

TickStore == now < T0 + MaxStoreTicks * ClockStep /\ Tick

\* the process dies (power loss, kill): the files stay as they are, the
\* memory of the process is gone
Crash ==
  /\ rpc # "down"
  /\ rpc' = "down" /\ rwake' = ZeroTime /\ events' = <<>> /\ e' = NoFile
  /\ stage' = NextEvent /\ decision' = "None"
  /\ spc' = "down" /\ swake' = ZeroTime /\ todayEvents' = <<>> /\ saveIdx' = 1
  /\ evalE' = NoFile /\ evalAt' = ZeroTime /\ evalFrom' = 1
  /\ syncEvent' = "free" /\ eJson' = NoFile
  /\ UNCHANGED <<webVars, histBatch, renderVars, now, NotificationRepeats, store, calendar, tickFired,
                 spoken, alwaysFetched, histFired>>

\* the process is started again: main starts the two loops
Restart ==
  /\ rpc = "down"
  /\ rpc' = "sleep" /\ spc' = "sleep"
  /\ UNCHANGED <<webVars, histBatch, renderVars, now, NotificationRepeats, store, calendar, rwake, events, e,
                 stage, decision, swake, todayEvents, saveIdx, histEval,
                 tickFired, spoken, alwaysFetched, histFired, lockVars>>

NextStore ==
  \/ TickStore
  \/ StoreFetch
  \/ SaveLock
  \/ SaveOpen
  \/ SaveWrite
  \/ SyncFailed
  \/ PruneLock
  \/ PruneRun
  \/ LoadLock
  \/ LoadRun
  \/ StoreDecide
  \/ UpdateLock
  \/ UpdateOpen
  \/ UpdateWrite
  \/ StoreSpeak
  \/ StoreFinish
  \/ Crash
  \/ Restart

SpecStore == Init /\ [][NextStore]_vars

StoredIds(st) == {id \in Ids : st[id] # NoFile}

\* C13: when the pruning step of a reconciliation completes, the stored
\* identifiers are exactly the identifiers of the fetched set R: every file
\* of an identifier outside R is deleted, and the records saved for R by
\* the first step are left as they are.
C13_ReconcileStoresExactly ==
  [][ (spc = "pruning" /\ spc' = "sleep") =>
        /\ StoredIds(store') = SeqIds(todayEvents)
        /\ \A id \in SeqIds(todayEvents) : store'[id] = store[id]
    ]_vars

\* the pruning step is about to delete the record of B, which carries a
\* flag, while A was fetched and saved
C13_Witness ==
  /\ spc = "pruning" /\ SeqIds(todayEvents) = {"A"}
  /\ Readable(store["A"])
  /\ Readable(store["B"]) /\ store["B"].EndAnnounced

\* the step in which os.WriteFile of saveEventLocally returns an error
SaveFails ==
  \/ spc = "saving" /\ spc' \notin {"saving", "writing", "down"}
  \/ spc = "writing" /\ spc' \notin {"writing", "down"}
       /\ store'[eJson.Event.ID] = Corrupt

\* C14: when saving one fetched event fails, syncLocalEvents returns the
\* error at once: the remaining events are not saved, the pruning step does
\* not run, and every record but the one being written stays as it was.
C14_SaveErrorAborts ==
  [][ /\ SaveFails =>
           /\ spc' = "failed" /\ saveIdx' = saveIdx
           /\ \A id \in Ids \ {eJson.Event.ID} : store'[id] = store[id]
      /\ (spc = "failed" /\ spc' # "failed") =>
           spc' \in {"sleep", "down"} /\ store' = store
    ]_vars

\* the save of A, the first of two fetched events, failed in the middle of
\* the write; B's record is still there
C14_Witness ==
  /\ spc = "failed" /\ saveIdx = 1 /\ Len(todayEvents) = 2
  /\ store["A"] = Corrupt /\ Readable(store["B"])

\* the identifiers LoadAll has to return
DueIds(st, t) ==
  {id \in Ids : /\ Readable(st[id])
                /\ SameDay(st[id].Event.StartTime, t)
                /\ t <= st[id].Event.EndTime}

\* C15 as claimed: loadTodayEvents returns exactly the stored records that
\* are scheduled for today and whose end has not passed.
C15_Original ==
  [][ (rpc = "loading" /\ rpc' = "loop") =>
        /\ LoadedIds' = DueIds(store, now)
        /\ \A i \in 1..Len(events') : events'[i] = store[events'[i].Event.ID]
    ]_vars

\* C16 as claimed: with an unparseable file in the store loadTodayEvents
\* does not fail and returns the valid records that pass the filter.
C16_Original ==
  [][ (rpc = "loading" /\ rpc' = "loop" /\ loadFails(store)) =>
        \A id \in DueIds(store, now) : id \in LoadedIds'
    ]_vars

\* C18: the store operations exclude each other: the sync loop and the
\* reminder loop are never both inside saveEventLocally,
\* removeLocalEventsNotInCalendar, loadTodayEvents or updateEvent, and the
\* loop inside one holds the mutex.
C18_MutualExclusion ==
  /\ ~(spc \in SyncCritical /\ rpc \in RemCritical)
  /\ spc \in SyncCritical => syncEvent = "sync"
  /\ rpc \in RemCritical => syncEvent = "rem"

\* a flag update waits for the mutex while saveEventLocally is writing
C18_Witness ==
  /\ rpc = "update" /\ spc = "writing" /\ syncEvent = "sync"
  /\ e.Event.ID = eJson.Event.ID

\* C19 as claimed: at a crash no event file is cut short.
C19_Original ==
  rpc = "down" => \A id \in Ids : store[id] # Corrupt

\* C17 as claimed: a flag update leaves the event snapshot of the record
\* as the sync saved it.
C17_Original ==
  [][ Fires =>
        LET id == e'.Event.ID
        IN store[id] # NoFile => store'[id].Event = store[id].Event
    ]_vars

nextBatchAtTicker(started, returned) == started + RemindSleep

\* main calls remindCurrentEvents and, after it returned, time.Sleep
nextBatchAt(started, returned) == returned + RemindSleep

\* the field that the set* call of a branch assigns is set in r
FlagSet(r, d, t) ==
  IF d = "AnnounceStart" THEN r.StartAnnounced /\ r.LastTimeReminded = t
  ELSE IF d = "CheckStarted" THEN r.CheckStartAnnounced
  ELSE IF d = "Remind" THEN r.LastTimeReminded = t
  ELSE IF d = "AnnounceEnd" THEN r.EndAnnounced
  ELSE TRUE

\* faulty variant: a failed aiSpeak takes the flag back
onSpeakErrorRevert(st, r, d) ==
  [st EXCEPT ![r.Event.ID] =
     IF d = "AnnounceStart" THEN [r EXCEPT !.StartAnnounced = FALSE]
     ELSE IF d = "CheckStarted" THEN [r EXCEPT !.CheckStartAnnounced = FALSE]
     ELSE IF d = "AnnounceEnd" THEN [r EXCEPT !.EndAnnounced = FALSE]
     ELSE r]

\* announceTask only logs the error of aiSpeak
onSpeakError(st, r, d) == st

BatchLoad ==
  /\ rpc = "sleep" /\ now >= rwake
  /\ events' = loadTodayEvents(store, now)
  /\ rpc' = "loop" /\ rwake' = ZeroTime
  /\ batchStart' = now /\ cfgAtStart' = NotificationRepeats
  /\ UNCHANGED <<webVars, now, NotificationRepeats, store, calendar, e, stage,
                 decision, syncVars, histEval, tickFired, spoken, alwaysFetched,
                 histFired, lockVars, batchEnd, failed, renderVars>>

\* render the message and announceTask, whose aiSpeak succeeds or fails
BatchSpeak ==
  /\ rpc = "speak"
  /\ \E r \in Outcomes :
       /\ store' = IF r = "ok" THEN store ELSE onSpeakError(store, e, decision)
       /\ failed' = IF r = "fail" /\ alwaysFetched[e.Event.ID]
                    THEN [failed EXCEPT ![e.Event.ID] = @ \cup {decision}]
                    ELSE failed
  /\ spoken' = IF alwaysFetched[e.Event.ID]
               THEN [spoken EXCEPT ![e.Event.ID][decision] = Bump(@)]
               ELSE spoken
  /\ tickFired' = [tickFired EXCEPT ![e.Event.ID] = @ \cup {decision}]
  /\ stage' = AfterSpeak(decision)
  /\ e' = IF stage' <= LastStage THEN e ELSE NoFile
  /\ rpc' = "loop"
  /\ UNCHANGED <<webVars, now, NotificationRepeats, calendar, rwake, events,
                 decision, syncVars, histEval, alwaysFetched, histFired,
                 lockVars, batchStart, batchEnd, cfgAtStart, renderVars>>

\* remindCurrentEvents returns; main sleeps
BatchFinish ==
  /\ rpc = "loop"
  /\ stage > LastStage /\ events = <<>>
  /\ rpc' = "sleep" /\ rwake' = nextBatchAt(batchStart, now)
  /\ batchEnd' = now
  /\ e' = NoFile /\ decision' = "None"
  /\ tickFired' = [id \in Ids |-> {}]
  /\ evalE' = NoFile /\ evalAt' = ZeroTime /\ evalFrom' = 1
  /\ UNCHANGED <<webVars, now, NotificationRepeats, store, calendar, events, stage,
                 syncVars, spoken, alwaysFetched, histFired, lockVars,
                 batchStart, cfgAtStart, failed, renderVars>>

NextBatch ==
  \/ Tick
  \/ SyncFetch
  \/ SyncSave
  \/ SyncPrune
  \/ BatchLoad
  \/ RemDecide
  \/ BatchSpeak
  \/ BatchFinish

SpecBatch == Init /\ [][NextBatch]_vars

\* C21: a reminder batch begins only after the previous one has returned
\* with nothing of it pending, and not before the pause of RemindSleep
\* seconds that follows its return: batches never overlap and a slow batch
\* leaves no batch queued behind it.
C21_OneBatchAtATime ==
  [][ (rpc = "sleep" /\ rpc' = "loop") =>
        /\ e = NoFile /\ events = <<>> /\ stage > LastStage
        /\ \A id \in Ids : tickFired[id] = {}
        /\ batchStart <= batchEnd
        /\ now >= batchEnd + RemindSleep
    ]_vars

\* a batch that took a whole pause or more has returned and the loop sleeps
C21_Witness ==
  /\ rpc = "sleep" /\ now = batchEnd
  /\ batchEnd >= batchStart + RemindSleep
  /\ rwake = batchEnd + RemindSleep

TickSync ==
  /\ now < T0 + MaxStoreTicks * ClockStep
  /\ rpc = "sleep" => now < rwake
  /\ spc = "sleep" => now < swake
  /\ rpc # "loop"
  /\ Tick

SyncSteps ==
  \/ StoreFetch
  \/ SaveLock
  \/ SaveOpen
  \/ SaveWrite
  \/ SyncFailed
  \/ PruneLock
  \/ PruneRun

RemSteps ==
  \/ LoadLock
  \/ LoadRun
  \/ StoreDecide
  \/ UpdateLock
  \/ UpdateOpen
  \/ UpdateWrite
  \/ StoreSpeak
  \/ StoreFinish

NextSync ==
  \/ TickSync
  \/ StoreFetch
  \/ SaveLock
  \/ SaveOpen
  \/ SaveWrite
  \/ SyncFailed
  \/ PruneLock
  \/ PruneRun
  \/ LoadLock
  \/ LoadRun
  \/ StoreDecide
  \/ UpdateLock
  \/ UpdateOpen
  \/ UpdateWrite
  \/ StoreSpeak
  \/ StoreFinish

\* the Go scheduler runs both goroutines, and the clock advances
SpecSync ==
  /\ Init
  /\ [][NextSync]_vars
  /\ WF_vars(SyncSteps)
  /\ WF_vars(RemSteps)
  /\ WF_vars(TickSync)

\* the clock values after which the clock is still followed
StoreClock == {T0 + k * ClockStep : k \in 0..(MaxStoreTicks - 1)}

\* the sync tick has failed: syncLocalEvents returned an error, or the fetch
\* did not return the events of every calendar
SyncTickFailing ==
  \/ spc = "failed"
  \/ spc = "save" /\ Len(todayEvents) < Cardinality(Ids)

\* C23: after a sync tick that failed (fetch or reconcile), the sync loop
\* fetches again at a later time and the reminder loop is at work on a batch
\* at a later time, and neither loop is ever terminated.
C23_SyncGoesOn ==
  /\ [](spc # "down" /\ rpc # "down")
  /\ \A t \in StoreClock :
       /\ (now = t /\ SyncTickFailing) ~> (now > t /\ spc = "save" /\ saveIdx = 1)
       /\ (now = t /\ SyncTickFailing) ~> (now > t /\ rpc \notin {"sleep", "down"})

\* the write of B.json failed in the first sync tick, which left the file cut
\* short; the sync loop has fetched again one clock step later
C23_Witness ==
  /\ now = T0 + ClockStep
  /\ store["B"] = Corrupt
  /\ spc = "save" /\ saveIdx = 1 /\ todayEvents # <<>>
  /\ syncEvent = "free"

\* ==================================================================
\* The render*Message functions as functions of the notification kind, the
\* record, the clock and the template text of the configuration
\* ==================================================================
\* A template text is a sequence of pieces: literal text, an action that
\* prints a field ({{.Event}}), or an action that is never closed.  A message
\* is a sequence of strings.
Lit(str) == [text |-> str]
Field(name) == [field |-> name]
Unclosed == [unclosed |-> TRUE]

\* longest template text drawn as an input
MaxLen == 2

TemplatePieces ==
  {Lit("Now: "), Field("Event"), Field("TimeLeft"), Field("Name"), Unclosed}

TemplateTexts ==
  UNION {[1..n -> TemplatePieces] : n \in 0..MaxLen}

\* timeLeftString: fmt.Sprintf("%d minutes", int(left.Minutes()))
timeLeftString(r, t) ==
  <<ToString(GoDiv(r.Event.EndTime - t, Minute)), " minutes">>

\* fmt.Sprintf with %s verbs only: each verb takes the next argument
RECURSIVE Sprintf(_, _)
Sprintf(format, args) ==
  IF format = <<>> THEN <<>>
  ELSE IF Head(format) = "%s"
       THEN Head(args) \o Sprintf(Tail(format), Tail(args))
       ELSE <<Head(format)>> \o Sprintf(Tail(format), args)

\* the format and the arguments of the Sprintf call of each function
defaultFormat(kind) ==
  IF kind = "AnnounceStart"
  THEN <<"Hey! Time to tackle \"", "%s", "\"! You have \"", "%s",
         "\" scheduled for now.">>
  ELSE IF kind = "AnnounceEnd" THEN <<"Hey! The \"", "%s", "\" is over now!">>
  ELSE IF kind = "CheckStarted" THEN <<"Hey! Did you start \"", "%s", "\"?">>
  ELSE <<"You have ", "%s", " left for ", "%s">>

defaultArgs(kind, r, t) ==
  IF kind = "AnnounceStart"
  THEN <<<<r.Event.Description>>, <<r.Event.Description>>>>
  ELSE IF kind = "Remind"
  THEN <<timeLeftString(r, t), <<r.Event.Description>>>>
  ELSE <<<<r.Event.Description>>>>

defaultConfig(kind, r, t) == Sprintf(defaultFormat(kind), defaultArgs(kind, r, t))

\* the template text used when the field of the configuration is empty
builtinTemplate(kind) ==
  IF kind = "AnnounceStart"
  THEN <<Lit("Hey! Time to tackle \""), Field("Event"),
         Lit("\"! You have \""), Field("Event"), Lit("\" scheduled for now.")>>
  ELSE IF kind = "AnnounceEnd"
  THEN <<Lit("Hey! The \""), Field("Event"), Lit("\" is over now!")>>
  ELSE IF kind = "CheckStarted"
  THEN <<Lit("Hey! Did you start \""), Field("Event"), Lit("\"?")>>
  ELSE <<Lit("You have "), Field("TimeLeft"), Lit(" left for "), Field("Event")>>

\* the struct handed to Execute
templateData(kind, r, t) ==
  IF kind = "Remind"
  THEN [Event |-> <<r.Event.Description>>, TimeLeft |-> timeLeftString(r, t)]
  ELSE [Event |-> <<r.Event.Description>>]

\* template.Parse fails on an action that is not closed
ParseFails(tmplText) ==
  \E i \in 1..Len(tmplText) : tmplText[i] = Unclosed

\* tmpl.Execute writes piece by piece into buf and stops with an error at a
\* field the struct does not have
RECURSIVE Execute(_, _, _)
Execute(tmpl, data, buf) ==
  IF tmpl = <<>> THEN [err |-> FALSE, buf |-> buf]
  ELSE LET piece == Head(tmpl)
       IN IF "text" \in DOMAIN piece
          THEN Execute(Tail(tmpl), data, Append(buf, piece.text))
          ELSE IF piece.field \in DOMAIN data
          THEN Execute(Tail(tmpl), data, buf \o data[piece.field])
          ELSE [err |-> TRUE, buf |-> buf]

\* faulty variant: what Execute has written so far is returned
onExecuteErrorPartial(buf, default) == buf

\* the error of Execute is logged and the Sprintf text returned
onExecuteError(buf, default) == default

renderMessage(kind, r, t, configured) ==
  LET default == defaultConfig(kind, r, t)
      tmplText == IF configured = Unset THEN builtinTemplate(kind) ELSE configured
  IN IF ParseFails(tmplText) THEN default
     ELSE LET res == Execute(tmplText, templateData(kind, r, t), <<>>)
          IN IF res.err THEN onExecuteError(res.buf, default) ELSE res.buf

renderAnnounceStartMessage(r, t, configured) ==
  renderMessage("AnnounceStart", r, t, configured)

renderAnnounceEndMessage(r, t, configured) ==
  renderMessage("AnnounceEnd", r, t, configured)

renderCheckStartMessage(r, t, configured) ==
  renderMessage("CheckStarted", r, t, configured)

renderRemindMessage(r, t, configured) ==
  renderMessage("Remind", r, t, configured)

\* the render call of the branch of remindCurrentEvents taken for kind
Render(kind, r, t, configured) ==
  IF kind = "AnnounceStart" THEN renderAnnounceStartMessage(r, t, configured)
  ELSE IF kind = "CheckStarted" THEN renderCheckStartMessage(r, t, configured)
  ELSE IF kind = "Remind" THEN renderRemindMessage(r, t, configured)
  ELSE renderAnnounceEndMessage(r, t, configured)

InitRender ==
  /\ now \in InputClock
  /\ \E c \in ConfiguredRepeats : NotificationRepeats = loadConfig(c)
  /\ store = [id \in Ids |-> NoFile]
  /\ calendar = InitialCalendar
  /\ rpc = "speak" /\ rwake = ZeroTime /\ events = <<>>
  /\ e \in {NewLocalEvent(v) : v \in CalendarVersions}
  /\ stage = 1 /\ decision \in Kinds
  /\ decision = "Remind" => remindGuard(e, now)
  /\ spc = "sleep" /\ swake = ZeroTime /\ todayEvents = <<>> /\ saveIdx = 1
  /\ evalE = NoFile /\ evalAt = ZeroTime /\ evalFrom = 1
  /\ tickFired = [id \in Ids |-> {}]
  /\ spoken = [id \in Ids |-> NothingSpoken]
  /\ alwaysFetched = [id \in Ids |-> TRUE]
  /\ lastFired = [id \in Ids |-> ZeroTime]
  /\ lastKind = [id \in Ids |-> "None"]
  /\ prunedSince = [id \in Ids |-> FALSE]
  /\ syncEvent = "free" /\ eJson = NoFile
  /\ batchStart = ZeroTime /\ batchEnd = ZeroTime
  /\ cfgAtStart = NotificationRepeats
  /\ failed = [id \in Ids |-> {}]
  /\ MessageTemplate \in TemplateTexts /\ speech = <<>>
  /\ webIdle

\* the render call of a branch, whose text goes to announceTask
RenderInput ==
  /\ rpc = "speak"
  /\ speech' = Render(decision, e, now, MessageTemplate)
  /\ rpc' = "loop"
  /\ UNCHANGED <<webVars, histBatch, lockVars, MessageTemplate, now,
                 NotificationRepeats, store, calendar, rwake, events, e, stage,
                 decision, syncVars, histEval, tickFired, spoken,
                 alwaysFetched, histFired>>

NextRender == RenderInput

SpecRender == InitRender /\ [][NextRender]_vars

\* the fields a template of the kind may print
FieldsOf(kind) == IF kind = "Remind" THEN {"Event", "TimeLeft"} ELSE {"Event"}

\* the template text has an action that is not closed, or prints a field
\* that the kind does not have
Invalid(tmplText, kind) ==
  \E i \in 1..Len(tmplText) :
    \/ tmplText[i] = Unclosed
    \/ "field" \in DOMAIN tmplText[i] /\ tmplText[i].field \notin FieldsOf(kind)

Rendered == rpc = "loop"

\* C24: with an unset or an invalid template, the text rendered for each of
\* the four kinds is the built-in phrasing of the kind, which is never empty.
C24_FallbackPhrasing ==
  (Rendered /\ (MessageTemplate = Unset \/ Invalid(MessageTemplate, decision))) =>
     /\ speech = defaultConfig(decision, e, now)
     /\ speech # <<>>
     /\ \E i \in 1..Len(speech) : speech[i] = e.Event.Description

\* a start announcement was rendered from a template that prints literal
\* text and then the time left, which the start announcement does not have
C24_Witness ==
  /\ Rendered /\ decision = "AnnounceStart"
  /\ MessageTemplate = <<Lit("Now: "), Field("TimeLeft")>>
  /\ speech = <<"Hey! Time to tackle \"", e.Event.Description,
                "\"! You have \"", e.Event.Description, "\" scheduled for now.">>

\* ==================================================================
\* The reminder batch while the web editor saves a configuration with
\* another positive repeat count
\* ==================================================================
\* notification_repeats values the user saves from the web editor
EditedRepeats == {1, 3}

\* handleConfigSave -> loadConfig with a positive count in the file: Decode
\* assigns the field of the global SysConfig, in the goroutine of the handler
loadConfigSwap ==
  /\ \E c \in EditedRepeats :
       /\ c # NotificationRepeats
       /\ NotificationRepeats' = loadConfig(c)
  /\ UNCHANGED <<webVars, histBatch, renderVars, lockVars, now, store, calendar,
                 remVars, syncVars, histEval, tickFired, spoken, alwaysFetched,
                 histFired>>

NextSwap ==
  \/ Tick
  \/ SyncFetch
  \/ SyncSave
  \/ SyncPrune
  \/ BatchLoad
  \/ RemDecide
  \/ RemSpeak
  \/ RemFinish
  \/ loadConfigSwap

SpecSwap == Init /\ [][NextSwap]_vars

\* C25 as claimed: every decision of a batch is the one that the repeat
\* count read at the start of the batch gives.
C25_Original ==
  Evaluated => decision = Decide(evalE, evalAt, cfgAtStart, evalFrom)

\* ==================================================================
\* Failing fetches, events without an end, the end announcement, the first
\* reminder and pruned records (specification Spec)
\* ==================================================================
\* C26 as claimed: the reconciliation that follows a fetch which did not
\* return the events of every calendar leaves every stored record as it is.
C26_Original ==
  [][ (spc = "save" /\ spc' = "sleep" /\ SeqIds(todayEvents) # Ids) =>
        store' = store ]_vars

\* C27 as claimed: a stored event with no end time that is scheduled for
\* today and has started is in the working set that a batch loads.
C27_Original ==
  [][ (rpc = "sleep" /\ rpc' = "loop") =>
        \A id \in Ids :
          (/\ store[id] # NoFile
           /\ store[id].Event.EndTime = ZeroTime
           /\ scheduledForToday(store[id], now)
           /\ now > store[id].Event.StartTime)
          => \E i \in 1..Len(events') : events'[i].Event.ID = id ]_vars

\* ------------------------------------------------------------------
\* The two loops started with the events of the day already in the store
\* (the program has synchronised them earlier in the day): A not yet
\* started, with a start and an end, and B of zero duration.
StoredCalendar == [id \in Ids |-> IF id = "A" THEN EventAMoved ELSE EventB]

InitStored ==
  /\ now = T0
  /\ \E c \in ConfiguredRepeats : NotificationRepeats = loadConfig(c)
  /\ calendar = StoredCalendar
  /\ store = [id \in Ids |-> NewLocalEvent(calendar[id])]
  /\ rpc = "sleep" /\ rwake = ZeroTime /\ events = <<>> /\ e = NoFile
  /\ stage = NextEvent /\ decision = "None"
  /\ spc = "sleep" /\ swake = ZeroTime /\ todayEvents = <<>> /\ saveIdx = 1
  /\ evalE = NoFile /\ evalAt = ZeroTime /\ evalFrom = 1
  /\ tickFired = [id \in Ids |-> {}]
  /\ spoken = [id \in Ids |-> NothingSpoken]
  /\ alwaysFetched = [id \in Ids |-> TRUE]
  /\ lastFired = [id \in Ids |-> ZeroTime]
  /\ lastKind = [id \in Ids |-> "None"]
  /\ prunedSince = [id \in Ids |-> FALSE]
  /\ syncEvent = "free" /\ eJson = NoFile
  /\ batchStart = ZeroTime /\ batchEnd = ZeroTime
  /\ cfgAtStart = NotificationRepeats
  /\ failed = [id \in Ids |-> {}]
  /\ MessageTemplate = Unset /\ speech = <<>>
  /\ webIdle

\* a goroutine whose sleep is over, or that is between two calls, runs
\* before another clock step has passed; speaking a notification takes at
\* most one clock step
TickDue ==
  /\ rpc = "sleep" => now < rwake
  /\ spc = "sleep" => now < swake
  /\ rpc # "loop"
  /\ rpc = "speak" => now = evalAt
  /\ Tick

NextStored ==
  \/ TickDue
  \/ SyncFetch
  \/ SyncSave
  \/ SyncPrune
  \/ RemLoad
  \/ RemDecide
  \/ RemSpeak
  \/ RemFinish

SpecStored == InitStored /\ [][NextStored]_vars

\* C28 as claimed: an event with an end that every sync has fetched and that
\* was stored before its start has had its end announced exactly once by the
\* time the reminder loop sleeps after the minute that follows the end.
C28_Original ==
  \A id \in Ids :
    (/\ alwaysFetched[id]
     /\ calendar[id].EndTime # ZeroTime
     /\ now >= calendar[id].EndTime + Minute
     /\ rpc = "sleep")
    => spoken[id]["AnnounceEnd"] = 1

\* C29 as claimed: when a reminder is handed to announceTask, the start of
\* its event has been announced.
C29_Original ==
  (rpc = "speak" /\ decision = "Remind") => e.StartAnnounced

\* ------------------------------------------------------------------
\* The two loops while the user deletes events from the remote calendar;
\* every fetch succeeds.  A deleted event is NoFile in calendar.
InCalendar(cal) == {id \in Ids : cal[id] # NoFile}

\* the user deletes an event from the remote calendar
CalendarRemove ==
  /\ \E id \in InCalendar(calendar) :
       calendar' = [calendar EXCEPT ![id] = NoFile]
  /\ UNCHANGED <<webVars, histBatch, renderVars, lockVars, now, NotificationRepeats,
                 store, remVars, syncVars, histEval, tickFired, spoken,
                 alwaysFetched, histFired>>

\* getTodayCalEvents returns the events that the calendar holds
FetchPresent ==
  /\ spc = "sleep" /\ now >= swake
  /\ todayEvents' = getCalEvents(calendar, InCalendar(calendar))
  /\ alwaysFetched' = [id \in Ids |->
                         alwaysFetched[id] /\ id \in SeqIds(todayEvents')]
  /\ spoken' = [id \in Ids |-> IF alwaysFetched'[id] THEN spoken[id]
                               ELSE NothingSpoken]
  /\ saveIdx' = 1
  /\ spc' = "save" /\ swake' = ZeroTime
  /\ UNCHANGED <<webVars, histBatch, renderVars, lockVars, now, NotificationRepeats,
                 store, calendar, remVars, histEval, tickFired, histFired>>

NextRemoved ==
  \/ TickDue
  \/ CalendarRemove
  \/ FetchPresent
  \/ SyncSave
  \/ SyncPrune
  \/ RemLoad
  \/ RemDecide
  \/ RemSpeak
  \/ RemFinish

SpecRemoved == Init /\ [][NextRemoved]_vars

\* C30 as claimed: a record that is absent from the store (never saved, or
\* pruned because its event has left the calendar) appears only by a save
\* of the sync loop, which has fetched its event; a flag update of the
\* reminder loop never creates it.
C30_Original ==
  [][ \A id \in Ids :
        (store[id] = NoFile /\ store'[id] # NoFile) =>
          (spc = "save" /\ saveIdx' = saveIdx + 1) ]_vars

\* ==================================================================
\* Failing flag writes, the calendar day, the number of reminders and the
\* locks
\* ==================================================================
\* C31 as claimed: announceTask is reached only after the write of the
\* record with the flag of the decision has succeeded.
C31_Original ==
  [][ (rpc \in {"updating", "uwriting"} /\ rpc' = "speak") =>
        store'[e.Event.ID] = e ]_vars

\* ------------------------------------------------------------------
\* loadTodayEvents around midnight, for an event in the zone of the system
\* (UTC) or in a zone one hour east of it
Hour == 60 * Minute

\* offset from UTC of the zone that time.LoadLocation returns; the system
\* runs in UTC
ZoneOffset(tz) == IF tz = "Europe/Berlin" THEN Hour ELSE 0

\* the calendar day of an instant in a zone
LocalDay(t, tz) == (t + ZoneOffset(tz)) \div Day

\* clock readings and start times: every half hour from two hours before
\* to two hours after midnight UTC
MidnightSteps == 4
MidnightClock == {Today + k * (Hour \div 2) : k \in (0 - MidnightSteps)..MidnightSteps}

MidnightEvents ==
  {[ID |-> "A", StartTime |-> t, EndTime |-> t + 6 * Hour, TimeZone |-> tz,
    Description |-> "d1"] : t \in MidnightClock, tz \in {"", "Europe/Berlin"}}

InitToday ==
  /\ now \in MidnightClock
  /\ \E c \in ConfiguredRepeats : NotificationRepeats = loadConfig(c)
  /\ \E ev \in MidnightEvents :
       /\ calendar = [id \in Ids |-> ev]
       /\ store = [id \in Ids |-> IF id = "A" THEN NewLocalEvent(ev) ELSE NoFile]
  /\ rpc = "sleep" /\ rwake = ZeroTime /\ events = <<>> /\ e = NoFile
  /\ stage = NextEvent /\ decision = "None"
  /\ spc = "sleep" /\ swake = ZeroTime /\ todayEvents = <<>> /\ saveIdx = 1
  /\ evalE = NoFile /\ evalAt = ZeroTime /\ evalFrom = 1
  /\ tickFired = [id \in Ids |-> {}]
  /\ spoken = [id \in Ids |-> NothingSpoken]
  /\ alwaysFetched = [id \in Ids |-> TRUE]
  /\ lastFired = [id \in Ids |-> ZeroTime]
  /\ lastKind = [id \in Ids |-> "None"]
  /\ prunedSince = [id \in Ids |-> FALSE]
  /\ syncEvent = "free" /\ eJson = NoFile
  /\ batchStart = ZeroTime /\ batchEnd = ZeroTime
  /\ cfgAtStart = NotificationRepeats
  /\ failed = [id \in Ids |-> {}]
  /\ MessageTemplate = Unset /\ speech = <<>>
  /\ webIdle

NextToday == RemLoad

SpecToday == InitToday /\ [][NextToday]_vars

\* C32 as claimed: the working set that a batch loads holds the stored
\* event whose end has not passed exactly when its start is on the calendar
\* day of the clock reading in the zone of the event.
C32_Original ==
  (rpc = "loop") =>
     LET ev == store["A"].Event
     IN (\E i \in 1..Len(events) : events[i].Event.ID = "A")
          <=> (/\ LocalDay(ev.StartTime, ev.TimeZone) = LocalDay(now, ev.TimeZone)
               /\ ~(now > ev.EndTime))

\* ------------------------------------------------------------------
\* The two loops with every repeat count from one to the default, the
\* events in the store before they start, any tick schedule, and the
\* notifications counted beyond MaxCount
RepeatCounts == 1..DefaultNotificationRepeats

\* the count of notifications of one kind is followed up to MaxSpoken
MaxSpoken == 4

InitRepeats ==
  /\ now = T0
  /\ NotificationRepeats \in RepeatCounts
  /\ calendar = StoredCalendar
  /\ store = [id \in Ids |-> NewLocalEvent(calendar[id])]
  /\ rpc = "sleep" /\ rwake = ZeroTime /\ events = <<>> /\ e = NoFile
  /\ stage = NextEvent /\ decision = "None"
  /\ spc = "sleep" /\ swake = ZeroTime /\ todayEvents = <<>> /\ saveIdx = 1
  /\ evalE = NoFile /\ evalAt = ZeroTime /\ evalFrom = 1
  /\ tickFired = [id \in Ids |-> {}]
  /\ spoken = [id \in Ids |-> NothingSpoken]
  /\ alwaysFetched = [id \in Ids |-> TRUE]
  /\ lastFired = [id \in Ids |-> ZeroTime]
  /\ lastKind = [id \in Ids |-> "None"]
  /\ prunedSince = [id \in Ids |-> FALSE]
  /\ syncEvent = "free" /\ eJson = NoFile
  /\ batchStart = ZeroTime /\ batchEnd = ZeroTime
  /\ cfgAtStart = NotificationRepeats
  /\ failed = [id \in Ids |-> {}]
  /\ MessageTemplate = Unset /\ speech = <<>>
  /\ webIdle

\* render the message and announceTask
CountSpeak ==
  /\ rpc = "speak"
  /\ spoken' = IF alwaysFetched[e.Event.ID]
               THEN [spoken EXCEPT ![e.Event.ID][decision] =
                       IF @ < MaxSpoken THEN @ + 1 ELSE @]
               ELSE spoken
  /\ tickFired' = [tickFired EXCEPT ![e.Event.ID] = @ \cup {decision}]
  /\ stage' = AfterSpeak(decision)
  /\ e' = IF stage' <= LastStage THEN e ELSE NoFile
  /\ rpc' = "loop"
  /\ UNCHANGED <<webVars, histBatch, renderVars, lockVars, now, NotificationRepeats,
                 store, calendar, rwake, events, decision, syncVars, histEval,
                 alwaysFetched, histFired>>

NextRepeats ==
  \/ Tick
  \/ SyncFetch
  \/ SyncSave
  \/ SyncPrune
  \/ RemLoad
  \/ RemDecide
  \/ CountSpeak
  \/ RemFinish

SpecRepeats == InitRepeats /\ [][NextRepeats]_vars

C34_NoLockWhileSpeaking ==
  rpc = "speak" => syncEvent # "rem"

\* the sync loop holds the mutex and prunes while a notification is spoken
C34_Witness ==
  rpc = "speak" /\ syncEvent = "sync" /\ spc = "pruning"

\* the mutex reminding is held from reminding.Lock() to the return of
\* remindCurrentEvents; main is its only caller
remindingHeld == rpc \in {"loop", "update", "updating", "uwriting", "speak"}

\* C35: a loop that waits for the mutex of the store gets it, and a batch
\* that has begun returns to the sleep of the main loop: the mutex and the
\* batch guard never block the two loops for good.
C35_LocksGranted ==
  /\ (rpc = "update") ~> (rpc = "updating")
  /\ (spc = "save") ~> (spc \in {"saving", "pruning"})
  /\ (rpc = "loading") ~> (rpc = "sleep")
  /\ (spc = "saving") ~> (spc = "sleep")
  /\ remindingHeld ~> ~remindingHeld

\* the reminder loop waits to write a flag while the sync loop holds the
\* mutex for a save
C35_Witness ==
  rpc = "update" /\ syncEvent = "sync" /\ spc = "writing"


\* ================================================== the web interface
\* A request is served in one step: the handlers of net/http run to their
\* end before the next request of the model is taken up.  The state a
\* handler works on is passed along as a record, and so is its outcome.
reminderVars ==
  <<store, calendar, remVars, syncVars, histEval, tickFired, spoken,
    alwaysFetched, histFired, lockVars, histBatch, speech>>

WebState ==
  [sessions |-> sessions, files |-> files, repeats |-> NotificationRepeats,
   template |-> MessageTemplate, secrets |-> SysSecrets]

\* the status and redirect a handler answers with, the state it leaves, and
\* whether the handler behind requireAuth ran
Reply(st, status, location, ran) ==
  [st |-> st, status |-> status, location |-> location, ran |-> ran]

\* logError / logInfo: a line is appended to the log file
logLine(st) == [st EXCEPT !.files.log = "lines"]

Restrict(f, S) == [x \in S |-> f[x]]

\* faulty variant: no session ever expires
sessionExpiredNever(session) == FALSE
\* time.Since(session.lastAccess) > sessionTimeout
sessionExpired(session) == now - session.lastAccess > sessionTimeout

\* isValidSession: its result ...
isValidSession(sm, sessionID) ==
  /\ sessionID \in DOMAIN sm
  /\ ~sessionExpired(sm[sessionID])
\* ... and the session map it leaves: an expired session is deleted, a
\* valid one has its last access set to the clock
touchSession(sm, sessionID) ==
  IF sessionID \notin DOMAIN sm THEN sm
  ELSE IF sessionExpired(sm[sessionID])
       THEN Restrict(sm, DOMAIN sm \ {sessionID})
       ELSE [sm EXCEPT ![sessionID].lastAccess = now]

\* deleteSession
deleteSession(sm, sessionID) == Restrict(sm, DOMAIN sm \ {sessionID})

\* faulty variant: the token of any live session is accepted
validateCSRFTokenOfAny(sm, sessionID, token) ==
  \E id \in DOMAIN sm : sm[id].csrfToken = token
\* validateCSRFToken: the session exists and its token is the given one
validateCSRFToken(sm, sessionID, token) ==
  /\ sessionID \in DOMAIN sm
  /\ sm[sessionID].csrfToken = token

\* faulty variant: every length passes
validateFileSizeAny(data, maxSize) == FALSE
\* validateFileSize: the error result
validateFileSize(data, maxSize) == data.size > maxSize

\* yaml.Unmarshal into a fresh structure: the error result
Unmarshal(data) == data.form # "yaml"

\* loadConfig as the handlers call it: both files are decoded INTO the
\* structures in memory, so a field a document leaves out keeps its value;
\* the empty file makes Decode fail (io.EOF), which ends the load
decodeConfig(st) ==
  LET d == st.files.config IN
  [st EXCEPT
     !.repeats = loadConfig(IF "notification_repeats" \in d.has
                            THEN d.notification_repeats ELSE @),
     !.template = IF "remind_message_template" \in d.has
                  THEN d.remind_message_template ELSE @]
decodeSecrets(st) ==
  LET d == st.files.secrets IN
  [st EXCEPT !.secrets = IF "web_server_password" \in d.has
                         THEN d.web_server_password ELSE @]
loadConfigFiles(st) ==
  IF st.files.config.blank THEN logLine(st)
  ELSE IF st.files.secrets.blank THEN logLine(decodeConfig(st))
  ELSE decodeSecrets(decodeConfig(st))

\* what loading the two files into zero-valued structures gives
fromScratch(fs) ==
  loadConfigFiles([sessions |-> sessions, files |-> fs, repeats |-> 0,
                   template |-> Unset, secrets |-> ""])

\* handleIndex and the other handlers that only read
handleIndex(req, st) == Reply(st, 200, "", TRUE)

\* handleConfigSave
handleConfigSave(req, st) ==
  IF req.method # "POST" THEN Reply(st, 405, "", TRUE)
  ELSE IF req.cookie = NoCookie THEN Reply(st, 401, "", TRUE)
  ELSE IF ~validateCSRFToken(st.sessions, req.cookie, req.token)
       THEN Reply(logLine(st), 403, "", TRUE)
  ELSE IF validateFileSize(req.body, MaxFileSize)
       THEN Reply(logLine(st), 413, "", TRUE)
  ELSE IF Unmarshal(req.body) THEN Reply(logLine(st), 400, "", TRUE)
  ELSE IF req.writeFails THEN Reply(logLine(st), 500, "", TRUE)
  ELSE Reply(loadConfigFiles([st EXCEPT !.files.config = req.body.doc]),
             200, "", TRUE)

\* handleSecretsSave
handleSecretsSave(req, st) ==
  IF req.method # "POST" THEN Reply(st, 405, "", TRUE)
  ELSE IF req.cookie = NoCookie THEN Reply(st, 401, "", TRUE)
  ELSE IF ~validateCSRFToken(st.sessions, req.cookie, req.token)
       THEN Reply(logLine(st), 403, "", TRUE)
  ELSE IF validateFileSize(req.body, MaxFileSize)
       THEN Reply(logLine(st), 413, "", TRUE)
  ELSE IF Unmarshal(req.body) THEN Reply(logLine(st), 400, "", TRUE)
  ELSE IF req.writeFails THEN Reply(logLine(st), 500, "", TRUE)
  ELSE Reply(loadConfigFiles([st EXCEPT !.files.secrets = req.body.doc]),
             200, "", TRUE)

\* handleLogsClear: the log is cut to nothing and the rotated log is removed
\* (a "cleared" log is both), and the clearing itself is logged
handleLogsClear(req, st) ==
  IF req.method # "POST" THEN Reply(st, 405, "", TRUE)
  ELSE IF req.cookie = NoCookie THEN Reply(st, 401, "", TRUE)
  ELSE IF ~validateCSRFToken(st.sessions, req.cookie, req.token)
       THEN Reply(logLine(st), 403, "", TRUE)
  ELSE IF req.writeFails THEN Reply(logLine(st), 500, "", TRUE)
  ELSE Reply([st EXCEPT !.files.log = "cleared"], 200, "", TRUE)

\* the routes of start() that requireAuth wraps
ConfigSavePath == "/api/config/save"
SecretsSavePath == "/api/secrets/save"
LogsClearPath == "/api/logs/clear"
SavePaths == {ConfigSavePath, SecretsSavePath}
GuardedPaths == SavePaths \cup {LogsClearPath}
ProtectedPaths == {"/"} \cup GuardedPaths

route(req, st) ==
  IF req.endpoint = ConfigSavePath THEN handleConfigSave(req, st)
  ELSE IF req.endpoint = SecretsSavePath THEN handleSecretsSave(req, st)
  ELSE IF req.endpoint = LogsClearPath THEN handleLogsClear(req, st)
  ELSE handleIndex(req, st)

\* requireAuth: no cookie or no valid session redirects to the login page,
\* otherwise the wrapped handler runs
requireAuth(req, st) ==
  IF req.cookie = NoCookie THEN Reply(st, 302, "/login", FALSE)
  ELSE LET checked == [st EXCEPT !.sessions = touchSession(@, req.cookie)] IN
       IF ~isValidSession(st.sessions, req.cookie)
       THEN Reply(checked, 302, "/login", FALSE)
       ELSE route(req, checked)

\* ------------------------------------------------------- requests drawn
\* the clock of the web interface moves by a whole session timeout
WebStep == sessionTimeout
MaxWebTicks == 2
WebRepeats == {1}
NewPassword == "hash2"
SmallSize == 64

ConfigDocs ==
  {ConfigDoc(fs, r, Unset) :
     fs \in SUBSET {"notification_repeats"},
     r \in WebRepeats}
SecretsDocs == {SecretsDoc({"web_server_password"}, NewPassword)}

\* request bodies: documents of the structure, the empty body, one document
\* at and just over the size limit, and bodies yaml.Unmarshal rejects
Probe(docs) == CHOOSE d \in docs : d.has # {}
Bodies(docs, blankDoc) ==
  {[size |-> SmallSize, form |-> "yaml", doc |-> d] : d \in docs}
  \cup {[size |-> 0, form |-> "yaml", doc |-> blankDoc]}
  \cup {[size |-> MaxFileSize, form |-> "yaml", doc |-> Probe(docs)],
        [size |-> MaxFileSize + 1, form |-> "yaml", doc |-> Probe(docs)],
        [size |-> MaxFileSize + 1, form |-> "malformed", doc |-> Probe(docs)],
        [size |-> SmallSize, form |-> "malformed", doc |-> Probe(docs)],
        [size |-> SmallSize, form |-> "mistyped", doc |-> Probe(docs)]}
NoBody == [size |-> 0, form |-> "yaml", doc |-> BlankConfig]

Cookies == SessionIds \cup {NoCookie}
SentTokens == {csrfTokenOf(id) : id \in SessionIds} \cup {NoToken, "forged"}

\* the requests to a route: POST with every body, one POST whose write to
\* the disk fails, and GET
RequestsTo(path, docs, blankDoc) ==
  [endpoint : {path}, method : {"POST"}, cookie : Cookies,
   token : SentTokens, body : Bodies(docs, blankDoc), writeFails : {FALSE}]
  \cup [endpoint : {path}, method : {"POST"}, cookie : Cookies,
        token : SentTokens,
        body : {[size |-> SmallSize, form |-> "yaml", doc |-> Probe(docs)]},
        writeFails : {TRUE}]
  \cup [endpoint : {path}, method : {"GET"}, cookie : Cookies,
        token : {NoToken}, body : {NoBody}, writeFails : {FALSE}]
ConfigSaveRequests == RequestsTo(ConfigSavePath, ConfigDocs, BlankConfig)
SecretsSaveRequests == RequestsTo(SecretsSavePath, SecretsDocs, BlankSecrets)
LogsClearRequests ==
  [endpoint : {LogsClearPath}, method : {"GET", "POST"}, cookie : Cookies,
   token : SentTokens, body : {NoBody}, writeFails : BOOLEAN]
IndexRequests ==
  [endpoint : {"/"}, method : {"GET"}, cookie : Cookies, token : {NoToken},
   body : {NoBody}, writeFails : {FALSE}]
GuardedRequests ==
  ConfigSaveRequests \cup SecretsSaveRequests \cup LogsClearRequests
Requests == IndexRequests \cup GuardedRequests

\* ------------------------------------------------------------- actions
Installed(r, req) ==
  /\ sessions' = r.st.sessions
  /\ files' = r.st.files
  /\ NotificationRepeats' = r.st.repeats
  /\ MessageTemplate' = r.st.template
  /\ SysSecrets' = r.st.secrets
  /\ resp' = [endpoint |-> req.endpoint, status |-> r.status]

\* a request to one of the routes behind requireAuth
Protected ==
  \E req \in Requests :
    /\ Installed(requireAuth(req, WebState), req)
    /\ UNCHANGED <<now, issued, reminderVars>>

\* handleLogin with the right password: createSession, redirect to "/"
LoginOk ==
  \E id \in SessionIds \ issued :
    /\ sessions' = [s \in DOMAIN sessions \cup {id} |->
                      IF s = id
                      THEN [csrfToken |-> csrfTokenOf(id), lastAccess |-> now]
                      ELSE sessions[s]]
    /\ issued' = issued \cup {id}
    /\ files' = [files EXCEPT !.log = "lines"]
    /\ resp' = [endpoint |-> "/login", status |-> 302]
    /\ UNCHANGED <<now, NotificationRepeats, MessageTemplate, SysSecrets,
                   reminderVars>>

\* handleLogin with a wrong password
LoginDenied ==
  /\ files' = [files EXCEPT !.log = "lines"]
  /\ resp' = [endpoint |-> "/login", status |-> 401]
  /\ UNCHANGED <<now, NotificationRepeats, MessageTemplate, SysSecrets,
                 sessions, issued, reminderVars>>

\* handleLogout
Logout ==
  \E c \in Cookies :
    /\ sessions' = IF c = NoCookie THEN sessions ELSE deleteSession(sessions, c)
    /\ files' = [files EXCEPT !.log = "lines"]
    /\ resp' = [endpoint |-> "/logout", status |-> 302]
    /\ UNCHANGED <<now, NotificationRepeats, MessageTemplate, SysSecrets,
                   issued, reminderVars>>

\* cleanupExpiredSessions: one round of its ticker
cleanupExpiredSessions ==
  /\ sessions' = Restrict(sessions,
                   {id \in DOMAIN sessions : ~sessionExpired(sessions[id])})
  /\ resp' = NoRequest
  /\ UNCHANGED <<now, NotificationRepeats, MessageTemplate, SysSecrets,
                 issued, files, reminderVars>>

WebTick ==
  /\ now < T0 + MaxWebTicks * WebStep
  /\ now' = now + WebStep
  /\ resp' = NoRequest
  /\ UNCHANGED <<NotificationRepeats, MessageTemplate, SysSecrets, sessions,
                 issued, files, reminderVars>>

NextWeb ==
  \/ WebTick
  \/ LoginOk
  \/ LoginDenied
  \/ Logout
  \/ cleanupExpiredSessions
  \/ Protected

SpecWeb == Init /\ [][NextWeb]_vars


\* C36: a handler behind requireAuth runs only when the request's cookie
\* names an existing session that was last accessed no more than 30 minutes
\* ago, and then that session's last access is set to the clock; a session
\* older than that is deleted by the check and the request is redirected to
\* the login page, as is a request without a session.
C36_SessionGate ==
  \A req \in Requests :
    LET r == requireAuth(req, WebState)
        c == req.cookie
        live == c \in DOMAIN sessions
        fresh == live /\ now - sessions[c].lastAccess <= 30 * Minute
    IN /\ r.ran => fresh
       /\ fresh => /\ r.ran
                   /\ c \in DOMAIN r.st.sessions
                   /\ r.st.sessions[c].lastAccess = now
       /\ (live /\ ~fresh) => c \notin DOMAIN r.st.sessions
       /\ ~fresh => r.status = 302 /\ r.location = "/login"

\* a request was redirected, one session that was issued is gone, and the
\* other one is exactly 30 minutes old
C36_Witness ==
  /\ resp.endpoint \in ProtectedPaths /\ resp.status = 302
  /\ \E id \in issued : id \notin DOMAIN sessions
  /\ \E id \in DOMAIN sessions : now - sessions[id].lastAccess = sessionTimeout

C38_BadBodyRejected ==
  \A req \in ConfigSaveRequests \cup SecretsSaveRequests :
    LET r == requireAuth(req, WebState)
        c == req.cookie
        own == c \in DOMAIN sessions /\ req.token = sessions[c].csrfToken
        bad == req.body.form # "yaml" \/ req.body.size > 1024 * 1024
    IN (bad /\ req.method = "POST") =>
         /\ r.status # 200
         /\ r.st.files.config = files.config
         /\ r.st.files.secrets = files.secrets
         /\ r.st.repeats = NotificationRepeats
         /\ r.st.template = MessageTemplate
         /\ r.st.secrets = SysSecrets
         /\ (r.ran /\ own) => r.status \in {400, 413}

\* a save was refused for its size after an earlier save had been accepted
C38_Witness ==
  /\ resp.endpoint \in SavePaths /\ resp.status = 413
  /\ files.config # configFileOf(DefaultNotificationRepeats, Unset)

\* C39 as the specification states it: after a configuration save answered
\* 200 (of a file that is not empty), the configuration in memory is what
\* loading the saved file into fresh structures gives.
C39_Original ==
  (resp.endpoint = ConfigSavePath /\ resp.status = 200 /\ ~files.config.blank)
    => LET fresh == fromScratch(files)
       IN /\ NotificationRepeats = fresh.repeats
          /\ MessageTemplate = fresh.template

====
